---------------------------- MODULE Spec2Model ----------------------------
(***************************************************************************)
(* Decision Engine: the scoring model (decision_model.py) and the Compute  *)
(* handler of the Streamlit page (app.py).                                 *)
(*                                                                         *)
(* Numbers are exact rationals [num, den] in lowest terms with den > 0.    *)
(* Texts are sequences of one-character strings.                           *)
(***************************************************************************)
EXTENDS Integers, Sequences, FiniteSets, TLC

(***************************************************************************)
(* Exact rational arithmetic, the model of Python's float arithmetic.  On  *)
(* the texts below the two give the same rows after rounding; no text is   *)
(* long enough for a float to overflow.                                    *)
(***************************************************************************)
Abs(x) == IF x < 0 THEN -x ELSE x

Min(a, b) == IF a <= b THEN a ELSE b

RECURSIVE GCD(_, _)
GCD(a, b) == IF b = 0 THEN a ELSE GCD(b, a % b)

Rat(n, d) ==
    LET g == GCD(Abs(n), Abs(d))
        s == IF d < 0 THEN -1 ELSE 1
    IN  [num |-> s * (n \div g), den |-> s * (d \div g)]

RInt(n) == [num |-> n, den |-> 1]

RAdd(a, b) ==
    LET g == GCD(a.den, b.den)
    IN  Rat(a.num * (b.den \div g) + b.num * (a.den \div g), a.den * (b.den \div g))

RNeg(a) == [num |-> -a.num, den |-> a.den]

RSub(a, b) == RAdd(a, RNeg(b))

RMul(a, b) ==
    LET g1 == GCD(Abs(a.num), b.den)
        g2 == GCD(Abs(b.num), a.den)
    IN  Rat((a.num \div g1) * (b.num \div g2), (a.den \div g2) * (b.den \div g1))

RLt(a, b) == RSub(a, b).num < 0

RLe(a, b) == RSub(a, b).num <= 0

RAbs(a) == [num |-> Abs(a.num), den |-> a.den]

RECURSIVE Pow10(_)
Pow10(k) == IF k = 0 THEN 1 ELSE 10 * Pow10(k - 1)

(* round(x, 2): the nearest multiple of 1/100, an exact half going to the  *)
(* even neighbour.                                                         *)
Round2(x) ==
    LET a == 100 * x.num
        q == a \div x.den
        r == a % x.den
        up == \/ 2 * r > x.den
              \/ (2 * r = x.den /\ q % 2 = 1)
    IN  Rat(IF up THEN q + 1 ELSE q, 100)

(***************************************************************************)
(* Characters and the conversion float(text).                              *)
(***************************************************************************)
Digits == {"0", "1", "2", "3", "4", "5", "6", "7", "8", "9"}

DigitVal(c) ==
    CASE c = "0" -> 0 [] c = "1" -> 1 [] c = "2" -> 2 [] c = "3" -> 3
      [] c = "4" -> 4 [] c = "5" -> 5 [] c = "6" -> 6 [] c = "7" -> 7
      [] c = "8" -> 8 [] c = "9" -> 9

(* The index just after the longest run of digits of s that starts at i.   *)
RECURSIVE DigitsEnd(_, _)
DigitsEnd(s, i) ==
    IF i <= Len(s) /\ s[i] \in Digits THEN DigitsEnd(s, i + 1) ELSE i

(* The integer written by the digits of s, every other character skipped.  *)
RECURSIVE Mantissa(_, _)
Mantissa(s, acc) ==
    IF s = <<>> THEN acc
    ELSE IF Head(s) \in Digits THEN Mantissa(Tail(s), 10 * acc + DigitVal(Head(s)))
    ELSE Mantissa(Tail(s), acc)

RECURSIVE LStrip(_)
LStrip(s) == IF s # <<>> /\ Head(s) = " " THEN LStrip(Tail(s)) ELSE s

RECURSIVE RStrip(_)
RStrip(s) ==
    IF s # <<>> /\ s[Len(s)] = " " THEN RStrip(SubSeq(s, 1, Len(s) - 1)) ELSE s

strip(s) == RStrip(LStrip(s))

(* float(s): surrounding whitespace dropped, an optional sign, then digits *)
(* with an optional point and fraction digits, or a point and digits, up   *)
(* to the end of the text; anything else is a ValueError (ok = FALSE).     *)
float(s) ==
    LET t == strip(s)
        signed == t # <<>> /\ Head(t) \in {"-", "+"}
        body == IF signed THEN Tail(t) ELSE t
        i1 == DigitsEnd(body, 1)
        hasDot == i1 <= Len(body) /\ body[i1] = "."
        i2 == IF hasDot THEN DigitsEnd(body, i1 + 1) ELSE i1
        nFrac == IF hasDot THEN i2 - i1 - 1 ELSE 0
        nDigits == (i1 - 1) + nFrac
        m == Mantissa(body, 0)
    IN  IF i2 = Len(body) + 1 /\ nDigits >= 1
        THEN [ok |-> TRUE,
              val |-> Rat(IF signed /\ Head(t) = "-" THEN -m ELSE m, Pow10(nFrac))]
        ELSE [ok |-> FALSE, val |-> RInt(0)]

(***************************************************************************)
(* parse_list: re.findall(r"-?(?:\d+\.?\d*|\.\d+)", s), each match         *)
(* converted with float.                                                   *)
(***************************************************************************)
(* The end (exclusive) of a match of (?:\d+\.?\d*|\.\d+) at i; 0 if none.   *)
GroupEnd(s, i) ==
    IF i > Len(s) THEN 0
    ELSE IF s[i] \in Digits
         THEN LET j == DigitsEnd(s, i)
              IN  IF j <= Len(s) /\ s[j] = "." THEN DigitsEnd(s, j + 1) ELSE j
    ELSE IF s[i] = "." /\ i + 1 <= Len(s) /\ s[i + 1] \in Digits
         THEN DigitsEnd(s, i + 1)
    ELSE 0

(* MatchEnd with the optional minus of the pattern forgotten.              *)
MatchEnd_unsigned(s, i) == GroupEnd(s, i)

(* The end (exclusive) of a match of the whole pattern at i; 0 if none.    *)
MatchEnd(s, i) ==
    IF s[i] = "-" /\ GroupEnd(s, i + 1) # 0 THEN GroupEnd(s, i + 1)
    ELSE GroupEnd(s, i)

RECURSIVE findall(_, _)
findall(s, i) ==
    IF i > Len(s) THEN <<>>
    ELSE LET e == MatchEnd(s, i)
         IN  IF e = 0 THEN findall(s, i + 1)
             ELSE <<SubSeq(s, i, e - 1)>> \o findall(s, e)

parse_list(s) ==
    LET numbers == findall(s, 1)
    IN  [k \in 1..Len(numbers) |-> float(numbers[k]).val]

(* Whether float raises ValueError on one of the matches.                  *)
parse_list_raises(s) ==
    LET numbers == findall(s, 1)
    IN  \E k \in 1..Len(numbers) : ~float(numbers[k]).ok

(***************************************************************************)
(* validate_probs.                                                         *)
(***************************************************************************)
RECURSIVE sum(_)
sum(xs) == IF xs = <<>> THEN RInt(0) ELSE RAdd(Head(xs), sum(Tail(xs)))

Tolerance == Rat(1, 1000000)

(* validate_probs with the test for negative entries left out.            *)
validate_probs_unsigned(probs) ==
    IF Len(probs) = 0 THEN [ok |-> FALSE, msg |-> "empty"]
    ELSE IF RLt(Tolerance, RAbs(RSub(sum(probs), RInt(1))))
         THEN [ok |-> FALSE, msg |-> "sum"]
    ELSE [ok |-> TRUE, msg |-> ""]

validate_probs(probs) ==
    IF Len(probs) = 0 THEN [ok |-> FALSE, msg |-> "empty"]
    ELSE IF \E k \in 1..Len(probs) : RLt(probs[k], RInt(0))
         THEN [ok |-> FALSE, msg |-> "negative"]
    ELSE IF RLt(Tolerance, RAbs(RSub(sum(probs), RInt(1))))
         THEN [ok |-> FALSE, msg |-> "sum"]
    ELSE [ok |-> TRUE, msg |-> ""]

(***************************************************************************)
(* decision_model.py.                                                      *)
(***************************************************************************)
(* zip(outcomes, probabilities) stops at the shorter list.                 *)
compute_stats(outcomes, probabilities) ==
    LET n == Min(Len(outcomes), Len(probabilities))
        ev == sum([k \in 1..n |-> RMul(probabilities[k], outcomes[k])])
        dev(k) == RSub(outcomes[k], ev)
        var == sum([k \in 1..n |-> RMul(probabilities[k], RMul(dev(k), dev(k)))])
    IN  [ev |-> ev, var |-> var]

risk_adjusted_score(outcomes, probabilities, risk_aversion) ==
    LET st == compute_stats(outcomes, probabilities)
    IN  [ev |-> st.ev, var |-> st.var,
         score |-> RSub(st.ev, RMul(risk_aversion, st.var))]

(***************************************************************************)
(* Bounds of the model.                                                    *)
(***************************************************************************)
(* The number-of-options input goes up to 6; the model stops here.         *)
MaxOptions == 3

(* How many input actions (edits, loads, resets) one behaviour takes.      *)
MaxInputs == 2

(* How many times Compute is pressed in one behaviour.                     *)
MaxRuns == 2

(***************************************************************************)
(* The page's constants.                                                   *)
(***************************************************************************)
MinOptions == 2

DefaultRiskAversion == Rat(10, 100)

(* defaults[i], i = 0..5 in the code, 1..6 here.                           *)
DefaultName(k) ==
    CASE k = 1 -> "Option 1" [] k = 2 -> "Option 2" [] k = 3 -> "Option 3"
      [] k = 4 -> "Option 4" [] k = 5 -> "Option 5" [] k = 6 -> "Option 6"

DefaultOutcomes(k) ==
    CASE k = 1 -> <<"1", "0", "€", ",", " ", "0", "€">>
      [] k = 2 -> <<"6", "€", ",", " ", "6", "€">>
      [] k = 3 -> <<"1", "2", "€", ",", " ", "-", "2", "€">>
      [] k = 4 -> <<"8", "€", ",", " ", "3", "€">>
      [] k = 5 -> <<"1", "5", "€", ",", " ", "-", "5", "€">>
      [] k = 6 -> <<"5", "€", ",", " ", "5", "€">>

DefaultProbs(k) ==
    CASE k = 1 -> <<"0", ".", "5", ",", " ", "0", ".", "5">>
      [] k = 2 -> <<"1", ",", " ", "0">>
      [] k = 3 -> <<"0", ".", "7", ",", " ", "0", ".", "3">>
      [] k = 4 -> <<"0", ".", "6", ",", " ", "0", ".", "4">>
      [] k = 5 -> <<"0", ".", "5", ",", " ", "0", ".", "5">>
      [] k = 6 -> <<"1", ",", " ", "0">>

(***************************************************************************)
(* What the user types, picks or loads.                                    *)
(***************************************************************************)
(* "6€, 6€", "5.004", "1, 2, 3"                                             *)
OutcomeTexts ==
    { <<"6", "€", ",", " ", "6", "€">>,
      <<"5", ".", "0", "0", "4">>,
      <<"1", ",", " ", "2", ",", " ", "3">> }

(* "1", "1.5, -.5", "0.5, 0.25", ""                                         *)
ProbTexts ==
    { <<"1">>,
      <<"1", ".", "5", ",", " ", "-", ".", "5">>,
      <<"0", ".", "5", ",", " ", "0", ".", "2", "5">>,
      <<>> }

(* Positions of the risk-aversion slider (0.0 to 1.0 in steps of 0.01).    *)
SliderValues == {RInt(0), Rat(25, 100)}

(* pages/1_Examples.py, "Investment (risky vs stable)".                    *)
InvestmentExample ==
    [risk_aversion |-> Rat(10, 100), num_options |-> 3,
     options |-> <<
       [name |-> "Startup bet",
        outcomes |-> <<"2", "0", "0", "0", "€", ",", " ", "-", "5", "0", "0", "€">>,
        probs |-> <<"0", ".", "2", ",", " ", "0", ".", "8">>],
       [name |-> "Index fund",
        outcomes |-> <<"3", "0", "0", "€", ",", " ", "5", "0", "€">>,
        probs |-> <<"0", ".", "6", ",", " ", "0", ".", "4">>],
       [name |-> "Savings",
        outcomes |-> <<"1", "0", "0", "€", ",", " ", "1", "0", "0", "€">>,
        probs |-> <<"1", ",", " ", "0">>] >>]

(* pages/1_Examples.py, "Study plan (time payoff)".                        *)
StudyPlanExample ==
    [risk_aversion |-> Rat(15, 100), num_options |-> 2,
     options |-> <<
       [name |-> "Plan A",
        outcomes |-> <<"8", " ", "h", "o", "u", "r", "s", " ", "s", "a", "v", "e", "d",
                       ",", " ", "0">>,
        probs |-> <<"0", ".", "6", ",", " ", "0", ".", "4">>],
       [name |-> "Plan B",
        outcomes |-> <<"5", " ", "h", "o", "u", "r", "s", " ", "s", "a", "v", "e", "d",
                       ",", " ", "5", " ", "h", "o", "u", "r", "s", " ", "s", "a", "v",
                       "e", "d">>,
        probs |-> <<"1", ",", " ", "0">>] >>]

(* An imported scenario: two sure outcomes, 5.001 and 5.004.               *)
CloseScenario ==
    [risk_aversion |-> Rat(10, 100), num_options |-> 2,
     options |-> <<
       [name |-> "Low", outcomes |-> <<"5", ".", "0", "0", "1">>, probs |-> <<"1">>],
       [name |-> "High", outcomes |-> <<"5", ".", "0", "0", "4">>, probs |-> <<"1">>] >>]

(* An imported scenario: a sound option, then three outcomes against two   *)
(* probabilities, then an option whose probabilities are 0.5, -0.5, 1.0.   *)
BadScenario ==
    [risk_aversion |-> Rat(10, 100), num_options |-> 3,
     options |-> <<
       [name |-> "Sound",
        outcomes |-> <<"1", "0", "€", ",", " ", "0", "€">>,
        probs |-> <<"0", ".", "5", ",", " ", "0", ".", "5">>],
       [name |-> "Short",
        outcomes |-> <<"1", ",", " ", "2", ",", " ", "3">>,
        probs |-> <<"0", ".", "5", ",", " ", "0", ".", "5">>],
       [name |-> "Negative",
        outcomes |-> <<"1", ",", " ", "2", ",", " ", "3">>,
        probs |-> <<"0", ".", "5", ",", " ", "-", "0", ".", "5", ",", " ", "1", ".",
                    "0">>] >>]

Payloads == {InvestmentExample, StudyPlanExample, CloseScenario, BadScenario}

(***************************************************************************)
(* State.                                                                  *)
(***************************************************************************)
VARIABLES
    num_options,    \* st.session_state.num_options
    risk_aversion,  \* st.session_state.risk_aversion
    names,          \* st.session_state["name_<i>"], i = 0.. in the code, 1.. here
    outcomes,       \* st.session_state["outcomes_<i>"]
    probs,          \* st.session_state["probs_<i>"]
    last_results,   \* st.session_state.last_results; none = TRUE is None
    pc,             \* "idle"; "loop" while the Compute handler runs; "stopped" after
                    \* its st.stop, "done" after its last line, until the next rerun
    i,              \* the loop variable of the handler (0-based, as in the code)
    results,        \* the handler's local list
    scored,         \* the options risk_adjusted_score was called for in this run
    errors,         \* the st.error messages of the last run
    table,          \* the rows shown by the last run
    best,           \* the "Best choice" announced by the last run
    inputs,         \* input actions taken so far
    runs,           \* Compute presses so far
    arg,            \* the argument of a function called on its own
    arg0,           \* that argument as it was passed
    called,         \* the function called on its own, "" before the call
    ret             \* what that call returned

session == <<num_options, risk_aversion, names, outcomes, probs>>
handler == <<pc, i, results, scored>>
display == <<errors, table, best>>
page == <<session, last_results, handler, display, inputs, runs>>
call == <<arg, arg0, called, ret>>
vars == <<page, call>>

Slots == 1..6

None == [none |-> TRUE, rows |-> <<>>]

NoReturn == [ok |-> FALSE, msg |-> "", vals |-> <<>>]

(* init_state, and the widgets' first values.                              *)
PageInit ==
    /\ num_options = MinOptions
    /\ risk_aversion = DefaultRiskAversion
    /\ names = [k \in Slots |-> DefaultName(k)]
    /\ outcomes = [k \in Slots |-> DefaultOutcomes(k)]
    /\ probs = [k \in Slots |-> DefaultProbs(k)]
    /\ last_results = None
    /\ pc = "idle"
    /\ i = 0
    /\ results = <<>>
    /\ scored = {}
    /\ errors = <<>>
    /\ table = <<>>
    /\ best = <<>>
    /\ inputs = 0
    /\ runs = 0

Init ==
    /\ PageInit
    /\ arg = <<>>
    /\ arg0 = <<>>
    /\ called = ""
    /\ ret = NoReturn

(* A rerun of the script without the Compute button: the handler's block   *)
(* is skipped and nothing of the last run is drawn again.                  *)
Rerun ==
    /\ pc # "loop"
    /\ inputs < MaxInputs
    /\ inputs' = inputs + 1
    /\ pc' = "idle"
    /\ errors' = <<>>
    /\ table' = <<>>
    /\ best' = <<>>
    /\ scored' = {}
    /\ UNCHANGED <<last_results, i, results, runs, call>>

EditOutcomes ==
    \E k \in 1..num_options, t \in OutcomeTexts :
        /\ Rerun
        /\ outcomes' = [outcomes EXCEPT ![k] = t]
        /\ UNCHANGED <<num_options, risk_aversion, names, probs>>

EditProbs ==
    \E k \in 1..num_options, t \in ProbTexts :
        /\ Rerun
        /\ probs' = [probs EXCEPT ![k] = t]
        /\ UNCHANGED <<num_options, risk_aversion, names, outcomes>>

SetRiskAversion ==
    \E l \in SliderValues :
        /\ Rerun
        /\ risk_aversion' = l
        /\ UNCHANGED <<num_options, names, outcomes, probs>>

SetNumOptions ==
    \E n \in MinOptions..MaxOptions :
        /\ Rerun
        /\ num_options' = n
        /\ UNCHANGED <<risk_aversion, names, outcomes, probs>>

(* load_payload: the fields of the options the payload lists are set, the  *)
(* others stay.                                                            *)
LoadPayload ==
    \E p \in Payloads :
        LET n == Len(p.options)
        IN  /\ Rerun
            /\ risk_aversion' = p.risk_aversion
            /\ num_options' = p.num_options
            /\ names' = [k \in Slots |-> IF k <= n THEN p.options[k].name ELSE names[k]]
            /\ outcomes' = [k \in Slots |->
                              IF k <= n THEN p.options[k].outcomes ELSE outcomes[k]]
            /\ probs' = [k \in Slots |-> IF k <= n THEN p.options[k].probs ELSE probs[k]]

(* "Clear all": the option fields are deleted (the widgets come back with  *)
(* their defaults), the controls are reset.                                *)
ClearAll ==
    /\ Rerun
    /\ num_options' = MinOptions
    /\ risk_aversion' = DefaultRiskAversion
    /\ names' = [k \in Slots |-> DefaultName(k)]
    /\ outcomes' = [k \in Slots |-> DefaultOutcomes(k)]
    /\ probs' = [k \in Slots |-> DefaultProbs(k)]

(***************************************************************************)
(* The Compute handler.                                                    *)
(***************************************************************************)
(* OptionError with the call of validate_probs left out.                   *)
OptionError_length_only(outs, ps) ==
    IF Len(outs) # Len(ps) THEN "length" ELSE ""

(* The two checks of the loop body: the message of the st.error they end   *)
(* in, "" when the option passes both.                                     *)
OptionError(outs, ps) ==
    IF Len(outs) # Len(ps) THEN "length"
    ELSE validate_probs(ps).msg

(* The dict appended to results.                                           *)
ResultRow(name, r) ==
    [Option |-> name, EV |-> Round2(r.ev), Var |-> Round2(r.var),
     Score |-> Round2(r.score)]

(* sorted(results, key=Score, reverse=True): stable, so rows of equal      *)
(* Score keep their order.                                                 *)
(* InsertRow putting a row before the rows of equal Score.                 *)
RECURSIVE InsertRow_before_equals(_, _)
InsertRow_before_equals(sortedRows, r) ==
    IF sortedRows = <<>> THEN <<r>>
    ELSE IF RLe(Head(sortedRows).Score, r.Score) THEN <<r>> \o sortedRows
    ELSE <<Head(sortedRows)>> \o InsertRow_before_equals(Tail(sortedRows), r)

RECURSIVE InsertRow(_, _)
InsertRow(sortedRows, r) ==
    IF sortedRows = <<>> THEN <<r>>
    ELSE IF RLt(Head(sortedRows).Score, r.Score) THEN <<r>> \o sortedRows
    ELSE <<Head(sortedRows)>> \o InsertRow(Tail(sortedRows), r)

RECURSIVE SortedByScore(_)
SortedByScore(rows) ==
    IF rows = <<>> THEN <<>>
    ELSE InsertRow(SortedByScore(SubSeq(rows, 1, Len(rows) - 1)), rows[Len(rows)])

(* The row the loop body makes of option k (1-based), and the list the    *)
(* handler stores for the options taken in the given order.                *)
OptionRow(k) ==
    ResultRow(names[k],
              risk_adjusted_score(parse_list(outcomes[k]), parse_list(probs[k]),
                                  risk_aversion))

Ranking(order) == SortedByScore([k \in 1..Len(order) |-> OptionRow(order[k])])

PressCompute ==
    /\ pc # "loop"
    /\ runs < MaxRuns
    /\ runs' = runs + 1
    /\ pc' = "loop"
    /\ i' = 0
    /\ results' = <<>>
    /\ scored' = {}
    /\ errors' = <<>>
    /\ table' = <<>>
    /\ best' = <<>>
    /\ UNCHANGED <<session, last_results, inputs, call>>

(* ComputeStep leaving out an option that fails a check and going on.      *)
ComputeStep_dropping ==
    /\ pc = "loop"
    /\ i < num_options
    /\ LET name == names[i + 1]
           outs == parse_list(outcomes[i + 1])
           ps == parse_list(probs[i + 1])
           msg == OptionError(outs, ps)
       IN  IF parse_list_raises(outcomes[i + 1]) \/ parse_list_raises(probs[i + 1])
           THEN \* except ValueError: st.error, and the script runs to its end
                /\ errors' = Append(errors, [option |-> "", msg |-> "numbers"])
                /\ pc' = "done"
                /\ i' = 0
                /\ results' = <<>>
                /\ UNCHANGED scored
           ELSE IF msg # ""
           THEN /\ i' = i + 1
                /\ UNCHANGED <<pc, errors, results, scored>>
           ELSE /\ results' = Append(results,
                        ResultRow(name, risk_adjusted_score(outs, ps, risk_aversion)))
                /\ scored' = scored \cup {i}
                /\ i' = i + 1
                /\ UNCHANGED <<pc, errors>>
    /\ UNCHANGED <<session, last_results, table, best, inputs, runs, call>>


(* ComputeStep calling risk_adjusted_score before the checks.              *)
ComputeStep_scoring_first ==
    /\ pc = "loop"
    /\ i < num_options
    /\ LET name == names[i + 1]
           outs == parse_list(outcomes[i + 1])
           ps == parse_list(probs[i + 1])
           msg == OptionError(outs, ps)
       IN  IF parse_list_raises(outcomes[i + 1]) \/ parse_list_raises(probs[i + 1])
           THEN \* except ValueError: st.error, and the script runs to its end
                /\ errors' = Append(errors, [option |-> "", msg |-> "numbers"])
                /\ pc' = "done"
                /\ i' = 0
                /\ results' = <<>>
                /\ UNCHANGED scored
           ELSE IF msg # ""
           THEN /\ errors' = Append(errors, [option |-> name, msg |-> msg])
                /\ pc' = "stopped"
                /\ i' = 0
                /\ results' = <<>>
                /\ scored' = scored \cup {i}
           ELSE /\ results' = Append(results,
                        ResultRow(name, risk_adjusted_score(outs, ps, risk_aversion)))
                /\ scored' = scored \cup {i}
                /\ i' = i + 1
                /\ UNCHANGED <<pc, errors>>
    /\ UNCHANGED <<session, last_results, table, best, inputs, runs, call>>


(* ComputeStep storing the rows in last_results as they are appended.      *)
ComputeStep_storing_early ==
    /\ pc = "loop"
    /\ i < num_options
    /\ LET name == names[i + 1]
           outs == parse_list(outcomes[i + 1])
           ps == parse_list(probs[i + 1])
           msg == OptionError(outs, ps)
       IN  IF parse_list_raises(outcomes[i + 1]) \/ parse_list_raises(probs[i + 1])
           THEN \* except ValueError: st.error, and the script runs to its end
                /\ errors' = Append(errors, [option |-> "", msg |-> "numbers"])
                /\ pc' = "done"
                /\ i' = 0
                /\ results' = <<>>
                /\ UNCHANGED scored
           ELSE IF msg # ""
           THEN \* st.error, st.stop
                /\ errors' = Append(errors, [option |-> name, msg |-> msg])
                /\ pc' = "stopped"
                /\ i' = 0
                /\ results' = <<>>
                /\ UNCHANGED scored
           ELSE /\ results' = Append(results,
                        ResultRow(name, risk_adjusted_score(outs, ps, risk_aversion)))
                /\ scored' = scored \cup {i}
                /\ i' = i + 1
                /\ UNCHANGED <<pc, errors>>
    /\ last_results' = IF pc' = "loop" THEN [none |-> FALSE, rows |-> results']
                       ELSE last_results
    /\ UNCHANGED <<session, table, best, inputs, runs, call>>


(* One round of "for i in range(num_options)".                             *)
ComputeStep ==
    /\ pc = "loop"
    /\ i < num_options
    /\ LET name == names[i + 1]
           outs == parse_list(outcomes[i + 1])
           ps == parse_list(probs[i + 1])
           msg == OptionError(outs, ps)
       IN  IF parse_list_raises(outcomes[i + 1]) \/ parse_list_raises(probs[i + 1])
           THEN \* except ValueError: st.error, and the script runs to its end
                /\ errors' = Append(errors, [option |-> "", msg |-> "numbers"])
                /\ pc' = "done"
                /\ i' = 0
                /\ results' = <<>>
                /\ UNCHANGED scored
           ELSE IF msg # ""
           THEN \* st.error, st.stop
                /\ errors' = Append(errors, [option |-> name, msg |-> msg])
                /\ pc' = "stopped"
                /\ i' = 0
                /\ results' = <<>>
                /\ UNCHANGED scored
           ELSE /\ results' = Append(results,
                        ResultRow(name, risk_adjusted_score(outs, ps, risk_aversion)))
                /\ scored' = scored \cup {i}
                /\ i' = i + 1
                /\ UNCHANGED <<pc, errors>>
    /\ UNCHANGED <<session, last_results, table, best, inputs, runs, call>>

(* After the loop: sort, store, show.  The announcement is made once per   *)
(* row shown, each time of results_sorted[0].                              *)
ComputeFinish ==
    /\ pc = "loop"
    /\ i = num_options
    /\ LET results_sorted == SortedByScore(results)
       IN  /\ last_results' = [none |-> FALSE, rows |-> results_sorted]
           /\ table' = results_sorted
           /\ best' = IF results_sorted = <<>> THEN <<>>
                      ELSE <<results_sorted[1].Option>>
    /\ pc' = "done"
    /\ i' = 0
    /\ results' = <<>>
    /\ UNCHANGED <<session, scored, errors, inputs, runs, call>>

Next ==
    \/ EditOutcomes
    \/ EditProbs
    \/ SetRiskAversion
    \/ SetNumOptions
    \/ LoadPayload
    \/ ClearAll
    \/ PressCompute
    \/ ComputeStep
    \/ ComputeFinish

Spec == Init /\ [][Next]_vars

(***************************************************************************)
(* The strict parser of decision_model.py's command line:                  *)
(* [float(x) for x in text.split(",")].                                    *)
(***************************************************************************)
(* text.split(","): the pieces between the commas, empty ones included.    *)
RECURSIVE split(_, _)
split(s, piece) ==
    IF s = <<>> THEN <<piece>>
    ELSE IF Head(s) = "," THEN <<piece>> \o split(Tail(s), <<>>)
    ELSE split(Tail(s), Append(piece, Head(s)))

(* split_floats with the empty pieces skipped instead of converted.        *)
split_floats_skipping(s) ==
    LET pieces == SelectSeq(split(s, <<>>), LAMBDA t : strip(t) # <<>>)
    IN  IF \E k \in 1..Len(pieces) : ~float(pieces[k]).ok
        THEN [ok |-> FALSE, msg |-> "ValueError", vals |-> <<>>]
        ELSE [ok |-> TRUE, msg |-> "",
              vals |-> [k \in 1..Len(pieces) |-> float(pieces[k]).val]]

(* ok = FALSE is the ValueError float raises, which nothing catches.       *)
split_floats(s) ==
    LET pieces == split(s, <<>>)
    IN  IF \E k \in 1..Len(pieces) : ~float(pieces[k]).ok
        THEN [ok |-> FALSE, msg |-> "ValueError", vals |-> <<>>]
        ELSE [ok |-> TRUE, msg |-> "",
              vals |-> [k \in 1..Len(pieces) |-> float(pieces[k]).val]]

(***************************************************************************)
(* The parsers called on their own, on every short text and on the texts   *)
(* of the documentation.                                                   *)
(***************************************************************************)
MaxLen == 4

Alphabet == {"1", "5", ".", "-", ",", " ", "x"}

(* "10€, 0€" and "-2.5 hours, .5"                                          *)
EuroText == <<"1", "0", "€", ",", " ", "0", "€">>

HoursText == <<"-", "2", ".", "5", " ", "h", "o", "u", "r", "s", ",", " ", ".", "5">>

Texts == UNION {[1..n -> Alphabet] : n \in 0..MaxLen} \cup {EuroText, HoursText}

ParseInit ==
    /\ PageInit
    /\ arg \in Texts
    /\ arg0 = arg
    /\ called = ""
    /\ ret = NoReturn

CallParseList ==
    /\ called = ""
    /\ called' = "parse_list"
    /\ ret' = IF parse_list_raises(arg)
              THEN [ok |-> FALSE, msg |-> "ValueError", vals |-> <<>>]
              ELSE [ok |-> TRUE, msg |-> "", vals |-> parse_list(arg)]
    /\ UNCHANGED <<arg, arg0, page>>

CallSplitFloats ==
    /\ called = ""
    /\ called' = "split_floats"
    /\ ret' = split_floats(arg)
    /\ UNCHANGED <<arg, arg0, page>>

ParseNext ==
    \/ CallParseList
    \/ CallSplitFloats

SpecParse == ParseInit /\ [][ParseNext]_vars

(***************************************************************************)
(* validate_probs called on its own, on every short list of these values.  *)
(***************************************************************************)
MaxProbs == 3

(* 0, 0.5, 1, -0.5, 0.5000005, 0.500002                                     *)
ProbValues ==
    {RInt(0), Rat(1, 2), RInt(1), Rat(-1, 2), Rat(5000005, 10000000),
     Rat(500002, 1000000)}

ProbLists == UNION {[1..n -> ProbValues] : n \in 0..MaxProbs}

ValidateInit ==
    /\ PageInit
    /\ arg \in ProbLists
    /\ arg0 = arg
    /\ called = ""
    /\ ret = NoReturn

CallValidateProbs ==
    /\ called = ""
    /\ called' = "validate_probs"
    /\ LET v == validate_probs(arg)
       IN  ret' = [ok |-> v.ok, msg |-> v.msg, vals |-> <<>>]
    /\ UNCHANGED <<arg, arg0, page>>

ValidateNext == CallValidateProbs

SpecValidate == ValidateInit /\ [][ValidateNext]_vars

(***************************************************************************)
(* Properties.  What a text or a list is said to denote is written here    *)
(* without the scanners above.                                             *)
(***************************************************************************)
SetMin(S) == CHOOSE x \in S : \A y \in S : x <= y

SetMax(S) == CHOOSE x \in S : \A y \in S : y <= x

(* t is a signed decimal: an optional minus, then digits with at most one  *)
(* point among them and at least one digit.                                *)
IsNumber(t) ==
    LET body == IF t # <<>> /\ t[1] = "-" THEN Tail(t) ELSE t
    IN  /\ \A k \in 1..Len(body) : body[k] \in Digits \cup {"."}
        /\ Cardinality({k \in 1..Len(body) : body[k] = "."}) <= 1
        /\ \E k \in 1..Len(body) : body[k] \in Digits

RECURSIVE RSumOver(_, _)
RSumOver(f, S) ==
    IF S = {} THEN RInt(0)
    ELSE LET k == SetMin(S) IN RAdd(f[k], RSumOver(f, S \ {k}))

(* The number a signed decimal denotes: each digit times its place value.  *)
Denoted(t) ==
    LET neg == t # <<>> /\ t[1] = "-"
        body == IF neg THEN Tail(t) ELSE t
        dots == {k \in 1..Len(body) : body[k] = "."}
        d == IF dots = {} THEN Len(body) + 1 ELSE SetMin(dots)
        place == [k \in 1..Len(body) |->
                    IF k < d THEN RInt(DigitVal(body[k]) * Pow10(d - 1 - k))
                    ELSE IF k > d THEN Rat(DigitVal(body[k]), Pow10(k - d))
                    ELSE RInt(0)]
        v == RSumOver(place, 1..Len(body))
    IN  IF neg THEN RNeg(v) ELSE v

(* The signed decimals of s from position pos on: each starts at the first *)
(* position where one starts and is the longest one starting there.        *)
RECURSIVE Tokens(_, _)
Tokens(s, pos) ==
    LET ends(a) == {b \in a..Len(s) : IsNumber(SubSeq(s, a, b))}
        starts == {a \in pos..Len(s) : ends(a) # {}}
    IN  IF starts = {} THEN <<>>
        ELSE LET a == SetMin(starts)
                 b == SetMax(ends(a))
             IN  <<SubSeq(s, a, b)>> \o Tokens(s, b + 1)

(* The k-th piece of s between commas, and a text without the blanks at    *)
(* its ends.                                                               *)
SegStarts(s) == {a \in 1..(Len(s) + 1) : a = 1 \/ s[a - 1] = ","}

Segment(s, k) ==
    LET a == CHOOSE x \in SegStarts(s) :
                 Cardinality({y \in SegStarts(s) : y < x}) = k - 1
        b == SetMin({y \in (a - 1)..Len(s) : y = Len(s) \/ s[y + 1] = ","})
    IN  SubSeq(s, a, b)

Segments(s) == [k \in 1..Cardinality(SegStarts(s)) |-> Segment(s, k)]

Trimmed(t) ==
    LET ink == {k \in 1..Len(t) : t[k] # " "}
    IN  IF ink = {} THEN <<>> ELSE SubSeq(t, SetMin(ink), SetMax(ink))

(* C1: validate_probs(p) reports success exactly when p has at least one   *)
(* element, no element is negative and the sum is within 1e-6 of 1 (so     *)
(* [0.5, -0.5, 1.0], whose sum is 1, fails), and p is left as passed.      *)
C1_ValidateIff ==
    called = "validate_probs" =>
        /\ arg = arg0
        /\ ret.ok <=>
             /\ Len(arg0) >= 1
             /\ \A k \in 1..Len(arg0) : arg0[k].num >= 0
             /\ LET off == RSub(RSumOver(arg0, 1..Len(arg0)), RInt(1))
                IN  /\ RLe(off, Rat(1, 1000000))
                    /\ RLe(Rat(-1, 1000000), off)

C1_Witness ==
    /\ called = "validate_probs"
    /\ arg0 = <<Rat(1, 2), Rat(-1, 2), RInt(1)>>
    /\ ~ret.ok

(* C7: parse_list raises nothing and returns the numbers denoted by the    *)
(* successive leftmost signed decimals of the text, in order, repeats      *)
(* kept; "10€, 0€" gives [10.0, 0.0] and "-2.5 hours, .5" gives            *)
(* [-2.5, 0.5].                                                            *)
C7_LenientParse ==
    called = "parse_list" =>
        LET toks == Tokens(arg0, 1)
        IN  /\ ret.ok
            /\ ret.vals = [k \in 1..Len(toks) |-> Denoted(toks[k])]
            /\ arg0 = EuroText => ret.vals = <<RInt(10), RInt(0)>>
            /\ arg0 = HoursText => ret.vals = <<Rat(-5, 2), Rat(1, 2)>>

C7_Witness ==
    /\ called = "parse_list"
    /\ arg0 = <<"-", "1", ".", "5">>
    /\ ret.vals = <<Rat(-3, 2)>>

(* C8, as claimed: the strict parser converts the non-empty trimmed pieces *)
(* between commas, skips the empty ones, and fails exactly when a          *)
(* non-empty piece is not a number.                                        *)
C8_SkipsEmptySegments ==
    called = "split_floats" =>
        LET kept == SelectSeq([k \in 1..Len(Segments(arg0)) |->
                                  Trimmed(Segments(arg0)[k])],
                              LAMBDA t : t # <<>>)
        IN  /\ ret.ok <=> \A k \in 1..Len(kept) : IsNumber(kept[k])
            /\ ret.ok => ret.vals = [k \in 1..Len(kept) |-> Denoted(kept[k])]

(* C8, amended: the strict parser converts every trimmed piece between     *)
(* commas, and fails exactly when some piece, an empty one included, is    *)
(* not a number.                                                           *)
C8_EveryPieceConverted ==
    called = "split_floats" =>
        LET segs == Segments(arg0)
        IN  /\ ret.ok <=> \A k \in 1..Len(segs) : IsNumber(Trimmed(segs[k]))
            /\ ret.ok => ret.vals = [k \in 1..Len(segs) |-> Denoted(Trimmed(segs[k]))]

C8_Witness ==
    /\ called = "split_floats"
    /\ arg0 = <<"1", ",", " ">>
    /\ ~ret.ok

(* Option k (1-based) fails a check of the loop body.                      *)
Offending(k) ==
    LET outs == parse_list(outcomes[k])
        ps == parse_list(probs[k])
        off == RSub(RSumOver(ps, 1..Len(ps)), RInt(1))
    IN  \/ Len(outs) # Len(ps)
        \/ Len(ps) = 0
        \/ \E j \in 1..Len(ps) : ps[j].num < 0
        \/ RLt(Rat(1, 1000000), RAbs(off))

BadOptions == {k \in 1..num_options : Offending(k)}

RunOver == pc \in {"stopped", "done"}

(* C2: a run over a batch with an offending option shows no table and no   *)
(* recommendation, and exactly one error, which names the first offending  *)
(* option.                                                                 *)
C2_AbortsOnFirstOffender ==
    (RunOver /\ BadOptions # {}) =>
        /\ pc = "stopped"
        /\ table = <<>>
        /\ best = <<>>
        /\ Len(errors) = 1
        /\ errors[1].option = names[SetMin(BadOptions)]

C2_Witness ==
    /\ pc = "stopped"
    /\ BadOptions = {2, 3}
    /\ errors = <<[option |-> "Short", msg |-> "length"]>>

(* C3, as claimed: when a run ends with a validation error,                *)
(* risk_adjusted_score has been called for no option of the batch.         *)
C3_NothingScoredBeforeError == pc = "stopped" => scored = {}

(* C3, amended: risk_adjusted_score is called only for options that passed *)
(* both checks, and when a run ends with a validation error it has been    *)
(* called for the options before the first offending one and for no other. *)
C3_ScoredOnlyBeforeOffender ==
    /\ \A j \in scored : ~Offending(j + 1)
    /\ pc = "stopped" =>
         /\ BadOptions # {}
         /\ scored = {j \in 0..(num_options - 1) : j + 1 < SetMin(BadOptions)}

C3_Witness ==
    /\ pc = "stopped"
    /\ scored = {0}
    /\ Len(parse_list(outcomes[2])) = 3
    /\ Len(parse_list(probs[2])) = 2

(* |a - b| <= 1e-9, written with a quotient so that no product is large.  *)
Tied(a, b) ==
    LET d == RSub(a, b)
    IN  d.num = 0 \/ d.den \div Abs(d.num) >= 1000000000

(* C4: after a successful run in which the first two rows have Scores      *)
(* within 1e-9 of each other, no single option is announced as the best    *)
(* choice (the page has no other way to tell a tie).                       *)
C4_TieNotSilentlyBroken ==
    (pc = "done" /\ Len(table) >= 2 /\ Tied(table[1].Score, table[2].Score))
    => best = <<>>

(* The score EV - lambda * Var of the option with the given name.          *)
ScoreOf(name) ==
    LET k == CHOOSE x \in 1..num_options : names[x] = name
    IN  risk_adjusted_score(parse_list(outcomes[k]), parse_list(probs[k]),
                            risk_aversion).score

(* C5: after a successful run no row comes after a row of an option whose  *)
(* score EV - lambda * Var is strictly lower, so the first row, the best   *)
(* choice, has a score at least that of every other option.                *)
C5_OrderedByScore ==
    (pc = "done" /\ errors = <<>>) =>
        /\ \A a, b \in 1..Len(table) :
             a < b => ~RLt(ScoreOf(table[a].Option), ScoreOf(table[b].Option))
        /\ \A k \in 1..num_options :
             best # <<>> => RLe(ScoreOf(names[k]), ScoreOf(best[1]))

C10_LastResultsWhole ==
    [][ /\ pc' = "stopped" => last_results' = last_results
        /\ last_results' # last_results =>
             /\ pc = "loop" /\ i = num_options /\ pc' = "done"
             /\ BadOptions = {}
             /\ ~last_results'.none
             /\ last_results'.rows = Ranking([k \in 1..num_options |-> k])
             /\ Len(last_results'.rows) = num_options
             /\ \A a, b \in 1..num_options :
                  a < b => RLe(last_results'.rows[b].Score, last_results'.rows[a].Score)
      ]_vars

C10_Witness ==
    /\ pc = "stopped"
    /\ ~last_results.none
    /\ Len(last_results.rows) = num_options

=============================================================================
